---- MODULE Spec2Model ----
(***************************************************************************)
(* Model of the radiology report feedback service: the feedback engine     *)
(* (feedback_generator.py) and the part of the /analyze handler            *)
(* (api_service.py) that feeds it.                                         *)
(*                                                                         *)
(* Strings are sequences of tokens: "pneumonia" is <<"pneumonia">>, the    *)
(* serialized negated label "-pneumonia" is <<"-", "pneumonia">>, and an   *)
(* f-string is the concatenation of its literal parts and its arguments.   *)
(* A report text is a sequence of word tokens and whitespace tokens " ".   *)
(***************************************************************************)
EXTENDS Integers, Sequences, FiniteSets, TLC

VARIABLES
    hashseed,               \* the process's string-hash seed (fixes set iteration order)
    expert_text_findings,   \* set(case_data["expert_text_findings"]) of the requested case
    student_report_text,    \* request.student_report_text
    student_analysis,       \* the dict built from the extractors' results
    visual_findings,        \* set(vision_analyzer.analyze_image(...))
    gold_standard_findings, \* list(expert_text_findings.union(visual_findings))
    feedback_data,          \* the record generate_feedback returned
    pc,                     \* position of the handler
    style_feedback,         \* the list _check_report_style returned
    data_files,             \* Data_Entry_2017.csv and selected_cases.txt on disk
    started,                \* the startup event has run
    nlp,                    \* rule_based_analyzer.nlp is loaded (not None)
    case_library,           \* the global case_library dict
    reqs                    \* the /analyze requests in flight: each one's locals

engine_vars == <<hashseed, expert_text_findings, student_report_text,
                 student_analysis, visual_findings, gold_standard_findings,
                 feedback_data, pc>>
style_vars == <<style_feedback>>
api_vars == <<data_files, started, nlp, case_library, reqs>>
vars == <<engine_vars, style_vars, api_vars>>

----------------------------------------------------------------------------
(* Bounds of the model *)

\* longest list of raw candidate findings the rule-based extractor returns
MaxFindings == 2
\* longest free part of a report text, in tokens, before the filler words
MaxTextTokens == 4
\* largest number of expert labels stored for one case
MaxExpert == 2

----------------------------------------------------------------------------
(* Small helpers *)

Max(a, b) == IF a >= b THEN a ELSE b
Min(a, b) == IF a <= b THEN a ELSE b
ToSet(s) == {s[i] : i \in DOMAIN s}
SeqsUpTo(S, n) == UNION {[1..k -> S] : k \in 0..n}

----------------------------------------------------------------------------
(* Vocabulary *)

\* variant: the extractor also knows the image detector's finding
patterns_with_visual == {"pneumonia", "effusion", "pneumothorax", "visual_anomaly"}

\* finding types the rule-based extractor can report (three of the seven keys)
patterns == {"pneumonia", "effusion", "pneumothorax"}

\* the only finding the image detector can report
visual_anomaly == <<"visual_anomaly">>

\* position of a name in the order the hash is built on
NameRank(n) ==
    CASE n = "effusion" -> 1
      [] n = "pneumonia" -> 2
      [] n = "pneumothorax" -> 3
      [] n = "visual_anomaly" -> 4
      [] n = "finding" -> 5

\* str.startswith for a one-character prefix
startswith(s, prefix) == Len(s) >= 1 /\ Head(s) = prefix

\* str.lstrip(chars): drop every leading occurrence of the character
RECURSIVE lstrip(_, _)
lstrip(s, ch) ==
    IF s # <<>> /\ Head(s) = ch THEN lstrip(Tail(s), ch) ELSE s

\* hash of a string under a seed: decides where the string sits in a set's table
hash(s, seed) ==
    LET h == 2 * NameRank(s[Len(s)]) + (IF startswith(s, "-") THEN 1 ELSE 0)
    IN  IF seed = 0 THEN h ELSE 0 - h

\* the process's possible hash seeds (two of them: two iteration orders)
HashSeeds == {0, 1}

\* list(a_set): the set's elements in the iteration order the hash seed gives
RECURSIVE list(_, _)
list(S, seed) ==
    IF S = {} THEN <<>>
    ELSE LET x == CHOOSE x \in S : \A y \in S : hash(x, seed) <= hash(y, seed)
         IN  <<x>> \o list(S \ {x}, seed)

----------------------------------------------------------------------------
(* Report texts *)

\* n words "lung" separated by single blanks
Filler(n) ==
    IF n = 0 THEN <<>>
    ELSE [i \in 1..(2 * n - 1) |-> IF i % 2 = 1 THEN "lung" ELSE " "]

\* str.lower on one token
LowerToken(t) ==
    CASE t = "I" -> "i"
      [] t = "Think" -> "think"
      [] t = "Stuff" -> "stuff"
      [] t = "Lungs" -> "lungs"
      [] t = "Pneumonia" -> "pneumonia"
      [] t = "Effusion" -> "effusion"
      [] t = "No" -> "no"
      [] t = "Finding" -> "finding"
      [] OTHER -> t

\* variant: the text is compared as typed
lower_nothing(text) == text

\* str.lower
lower(text) == [i \in DOMAIN text |-> LowerToken(text[i])]

\* str.split(): the whitespace-separated words; only their number is used
word_count(text) ==
    Cardinality({i \in DOMAIN text :
        text[i] # " " /\ (i = 1 \/ text[i - 1] = " ")})

\* phrase in text: the phrase occurs as a contiguous piece of the text
Contains(text, phrase) ==
    \E i \in 1..(Len(text) - Len(phrase) + 1) :
        SubSeq(text, i, i + Len(phrase) - 1) = phrase

unprofessional_phrases ==
    << <<"i", " ", "think">>, <<"looks", " ", "like">>, <<"maybe", " ", "a">>,
       <<"stuff">>, <<"bad", " ", "finding">> >>

BriefThreshold == 15
LongThreshold == 100

PhraseAdvisory(phrase) ==
    <<"The phrase '">> \o phrase \o <<"' is unprofessional.">>
BriefAdvisory == <<"The report is very brief.">>
LongAdvisory == <<"The report is quite long.">>

\* the advisories for phrases k..5, in the phrase list's order
RECURSIVE PhraseAdvisories(_, _)
PhraseAdvisories(text_lower, k) ==
    IF k > Len(unprofessional_phrases) THEN <<>>
    ELSE (IF Contains(text_lower, unprofessional_phrases[k])
          THEN <<PhraseAdvisory(unprofessional_phrases[k])>>
          ELSE <<>>)
         \o PhraseAdvisories(text_lower, k + 1)

\* variant: a report of exactly 15 words counts as brief
check_report_style_inclusive(report_text) ==
    LET text_lower == lower(report_text)
        n == word_count(report_text)
    IN  PhraseAdvisories(text_lower, 1)
        \o (IF n <= BriefThreshold THEN <<BriefAdvisory>>
            ELSE IF n > LongThreshold THEN <<LongAdvisory>>
            ELSE <<>>)

check_report_style(report_text) ==
    LET text_lower == lower(report_text)
        n == word_count(report_text)
    IN  PhraseAdvisories(text_lower, 1)
        \o (IF n < BriefThreshold THEN <<BriefAdvisory>>
            ELSE IF n > LongThreshold THEN <<LongAdvisory>>
            ELSE <<>>)

\* the report texts requests are drawn from
CleanText == Filler(20)
BriefText == <<"Lungs", " ", "are", " ", "clear">>
HedgedText == <<"I", " ", "Think", " ", "there", " ", "is", " ", "Stuff">>
ReportTexts == {CleanText, BriefText, HedgedText}

----------------------------------------------------------------------------
(* The feedback engine: AdvancedFeedbackGenerator.generate_feedback *)

\* {f for f in expert_findings if not f.startswith('-')}
expert_positives(expert_findings) ==
    {f \in ToSet(expert_findings) : ~startswith(f, "-")}

\* {f.lstrip('-') for f in expert_findings if f.startswith('-')}
expert_negatives(expert_findings) ==
    {lstrip(f, "-") : f \in {g \in ToSet(expert_findings) : startswith(g, "-")}}

\* variant: the negated flag is not looked at
student_positives_unfiltered(analysis) ==
    {f.type : f \in ToSet(analysis.fallback.findings)}

\* {f['type'] for f in findings if not f.get('negated')}
student_positives(analysis) ==
    {f.type : f \in {g \in ToSet(analysis.fallback.findings) : ~g.negated}}

\* variant: the negated flag is not looked at
student_negatives_unfiltered(analysis) ==
    {f.type : f \in ToSet(analysis.fallback.findings)}

\* {f['type'] for f in findings if f.get('negated')}
student_negatives(analysis) ==
    {f.type : f \in {g \in ToSet(analysis.fallback.findings) : g.negated}}

AbsenceOf(n) == <<"Absence of ">> \o n
MissedAbsenceOf(n) == <<"Missed stating the absence of ">> \o n
IncorrectlyIdentified(n) ==
    <<"Incorrectly identified ">> \o n \o <<" (should be absent)">>

\* [f(n) for n in names]
RECURSIVE Phrased(_, _)
Phrased(names, kind) ==
    IF names = <<>> THEN <<>>
    ELSE << CASE kind = "absence" -> AbsenceOf(Head(names))
              [] kind = "missed" -> MissedAbsenceOf(Head(names))
              [] kind = "incorrect" -> IncorrectlyIdentified(Head(names)) >>
         \o Phrased(Tail(names), kind)

general_tips ==
    << <<"Always conclude with a concise 'Impression' section.">>,
       <<"When describing a finding, try to mention its location.">> >>

\* variant: a missed negation costs as much as a missed finding
overall_score_flat_penalty(n_missed, n_missed_neg, n_misint, n_neg_err, n_style) ==
    Max(0, Min(100, 100 - n_missed * 15 - n_missed_neg * 15 - n_misint * 20
                        - n_neg_err * 25 - n_style * 5))

\* variant: the result is capped at 100 but has no floor
overall_score_no_floor(n_missed, n_missed_neg, n_misint, n_neg_err, n_style) ==
    Min(100, 100 - n_missed * 15 - n_missed_neg * 5 - n_misint * 20
                 - n_neg_err * 25 - n_style * 5)

\* variant: a missed finding costs 10
overall_score_missed_ten(n_missed, n_missed_neg, n_misint, n_neg_err, n_style) ==
    Max(0, Min(100, 100 - n_missed * 10 - n_missed_neg * 5 - n_misint * 20
                        - n_neg_err * 25 - n_style * 5))

\* the scoring model: penalties applied one after the other, then the clamp
overall_score(n_missed, n_missed_neg, n_misint, n_neg_err, n_style) ==
    LET s0 == 100
        s1 == s0 - n_missed * 15
        s2 == s1 - n_missed_neg * 5
        s3 == s2 - n_misint * 20
        s4 == s3 - n_neg_err * 25
        s5 == s4 - n_style * 5
    IN  Max(0, Min(100, s5))

generate_feedback(analysis, expert_findings, seed) ==
    LET e_pos == expert_positives(expert_findings)
        e_neg == expert_negatives(expert_findings)
        s_pos == student_positives(analysis)
        s_neg == student_negatives(analysis)
        correct_observations == list(s_pos \cap e_pos, seed)
        correct_negations == list(s_neg \cap e_neg, seed)
        missed_findings == list(e_pos \ s_pos, seed)
        missed_negations == list(e_neg \ s_neg, seed)
        misinterpretations == list(s_pos \ e_pos, seed)
        negation_errors == list(s_pos \cap e_neg, seed)
        clarity_and_style_feedback == check_report_style(analysis.report_text)
    IN  [correct_observations |->
             correct_observations \o Phrased(correct_negations, "absence"),
         missed_findings |->
             missed_findings \o Phrased(missed_negations, "missed"),
         misinterpretations |->
             misinterpretations \o Phrased(negation_errors, "incorrect"),
         clarity_and_style |-> clarity_and_style_feedback,
         tips |-> general_tips,
         overall_score |->
             overall_score(Len(missed_findings), Len(missed_negations),
                           Len(misinterpretations), Len(negation_errors),
                           Len(clarity_and_style_feedback))]

----------------------------------------------------------------------------
(* The /analyze handler around the engine *)

\* a raw candidate finding of the rule-based extractor
RawCandidates == [type : {<<n>> : n \in patterns}, negated : BOOLEAN]

\* the serialized labels a case can carry: a type, or a type marked negated
ExpertLabels == {<<n>> : n \in patterns} \cup {<<"-", n>> : n \in patterns}

\* what analyze_image can return
VisionOutputs == {<<>>, <<visual_anomaly>>}

\* variant: the second set is dropped
gold_standard_first_only(first, second, seed) == list(first, seed)

\* list(expert_text_findings.union(visual_findings))
gold_standard(first, second, seed) == list(first \cup second, seed)

\* the service's variables while only the engine is exercised
NoService ==
    /\ data_files = [present |-> FALSE, rows |-> <<>>]
    /\ started = FALSE
    /\ nlp = TRUE
    /\ case_library = <<>>
    /\ reqs = <<>>

NoAnalysis == [fallback |-> [findings |-> <<>>], report_text |-> <<>>]
NoFeedback ==
    [correct_observations |-> <<>>, missed_findings |-> <<>>,
     misinterpretations |-> <<>>, clarity_and_style |-> <<>>,
     tips |-> <<>>, overall_score |-> 0]

Init ==
    /\ hashseed \in HashSeeds
    /\ expert_text_findings \in
           {S \in SUBSET ExpertLabels : Cardinality(S) <= MaxExpert}
    /\ student_report_text \in ReportTexts
    /\ student_analysis = NoAnalysis
    /\ visual_findings = {}
    /\ gold_standard_findings = <<>>
    /\ feedback_data = NoFeedback
    /\ pc = "start"
    /\ style_feedback = <<>>
    /\ NoService

\* Step 1: the rule-based extractor's findings join the report text
AnalyzeText ==
    /\ pc = "start"
    /\ \E findings \in SeqsUpTo(RawCandidates, MaxFindings) :
           student_analysis' =
               [fallback |-> [findings |-> findings],
                report_text |-> student_report_text]
    /\ pc' = "text_done"
    /\ UNCHANGED <<hashseed, expert_text_findings, student_report_text,
                   visual_findings, gold_standard_findings, feedback_data>>
    /\ UNCHANGED <<style_vars, api_vars>>

\* Step 2: the image detector's findings
AnalyzeImage ==
    /\ pc = "text_done"
    /\ \E out \in VisionOutputs : visual_findings' = ToSet(out)
    /\ pc' = "image_done"
    /\ UNCHANGED <<hashseed, expert_text_findings, student_report_text,
                   student_analysis, gold_standard_findings, feedback_data>>
    /\ UNCHANGED <<style_vars, api_vars>>

\* Step 3: the gold standard is assembled and the engine runs on it
GenerateFeedback ==
    /\ pc = "image_done"
    /\ gold_standard_findings' =
           gold_standard(expert_text_findings, visual_findings, hashseed)
    /\ feedback_data' =
           generate_feedback(student_analysis, gold_standard_findings', hashseed)
    /\ pc' = "done"
    /\ UNCHANGED <<hashseed, expert_text_findings, student_report_text,
                   student_analysis, visual_findings>>
    /\ UNCHANGED <<style_vars, api_vars>>

Next == AnalyzeText \/ AnalyzeImage \/ GenerateFeedback

Spec == Init /\ [][Next]_vars

----------------------------------------------------------------------------
(* The style critic on its own: _check_report_style over many texts *)

\* the tokens the free part of a text is made of
StyleTokens == {" ", "I", "think", "Stuff", "looks", "like"}

\* numbers of filler words appended to the free part
PadWords == {0, 10, 14, 15, 100, 101}

\* a free part followed by pad filler words
PaddedText(prefix, pad) ==
    IF pad = 0 THEN prefix ELSE prefix \o <<" ">> \o Filler(pad)

StyleTexts ==
    {PaddedText(prefix, pad) :
        prefix \in SeqsUpTo(StyleTokens, MaxTextTokens), pad \in PadWords}

StyleInit ==
    /\ hashseed \in HashSeeds
    /\ expert_text_findings = {}
    /\ student_report_text \in StyleTexts
    /\ student_analysis = NoAnalysis
    /\ visual_findings = {}
    /\ gold_standard_findings = <<>>
    /\ feedback_data = NoFeedback
    /\ pc = "start"
    /\ style_feedback = <<>>
    /\ NoService

\* the style critic is run on the text
CheckReportStyle ==
    /\ pc = "start"
    /\ style_feedback' = check_report_style(student_report_text)
    /\ pc' = "styled"
    /\ UNCHANGED <<hashseed, expert_text_findings, student_report_text,
                   student_analysis, visual_findings, gold_standard_findings,
                   feedback_data, api_vars>>

\* the engine scores the text for a learner and a gold standard without findings
ScoreReport ==
    /\ pc = "styled"
    /\ student_analysis' =
           [fallback |-> [findings |-> <<>>], report_text |-> student_report_text]
    /\ feedback_data' = generate_feedback(student_analysis', <<>>, hashseed)
    /\ pc' = "done"
    /\ UNCHANGED <<hashseed, expert_text_findings, student_report_text,
                   visual_findings, gold_standard_findings, style_vars, api_vars>>

StyleNext == CheckReportStyle \/ ScoreReport

SpecStyle == StyleInit /\ [][StyleNext]_vars

----------------------------------------------------------------------------
(* The service: the startup event and concurrent /analyze requests *)

\* the requests in flight
Requests == {"r1", "r2"}

\* str.split(sep): the pieces between the separators
RECURSIVE split(_, _)
split(s, sep) ==
    IF \A i \in DOMAIN s : s[i] # sep THEN <<s>>
    ELSE LET k == CHOOSE i \in DOMAIN s :
                      s[i] = sep /\ \A j \in 1..(i - 1) : s[j] # sep
         IN  <<SubSeq(s, 1, k - 1)>> \o split(SubSeq(s, k + 1, Len(s)), sep)

\* str.replace(old, ''): every occurrence of the character is taken out
replace_with_nothing(s, old) == SelectSeq(s, LAMBDA t : t # old)

\* variant: blanks are taken out of a label as well as underscores
normalized_label_no_blanks(label) ==
    SelectSeq(lower(label), LAMBDA t : t \notin {"_", " "})

\* label.lower().replace('_', '')
normalized_label(label) == replace_with_nothing(lower(label), "_")

\* the string "nofinding"
nofinding == <<"no", "finding">>

\* the expert text findings of a row of the dataset
expert_text_labels(row) ==
    LET labels == {normalized_label(l) : l \in ToSet(split(row.finding_labels, "|"))}
    IN  IF nofinding \in labels THEN {} ELSE labels

\* row['Image Index'].split('.')[0], request.case_id.split('.')[0]
case_id_base(name) == split(name, ".")[1]

\* case_library[case_id] = {...} for every selected row, in the file's order
RECURSIVE build_library(_, _, _)
build_library(library, rows, seed) ==
    IF rows = <<>> THEN library
    ELSE LET row == Head(rows)
             case_id == case_id_base(row.image_index)
             entry == [case_id |-> case_id,
                       image_path |-> <<"/static/images/">> \o row.image_index,
                       expert_text_findings |->
                           list(expert_text_labels(row), seed)]
             updated == [k \in DOMAIN library \cup {case_id} |->
                            IF k = case_id THEN entry ELSE library[k]]
         IN  build_library(updated, Tail(rows), seed)

\* rows of the dataset that selected_cases.txt names
PneumoniaRow ==
    [image_index |-> <<"c1", ".", "png">>,
     finding_labels |-> <<"Pneumonia", "|", "Effusion">>]
NoFindingRow ==
    [image_index |-> <<"c2", ".", "png">>,
     finding_labels |-> <<"No", " ", "Finding">>]

\* the data files the service can find at startup
DataFiles ==
    {[present |-> FALSE, rows |-> <<>>],
     [present |-> TRUE, rows |-> <<PneumoniaRow>>],
     [present |-> TRUE, rows |-> <<PneumoniaRow, NoFindingRow>>]}

\* the requests sent: a case id and a report text
RequestInputs ==
    {[case_id |-> <<"c1", ".", "png">>, student_report_text |-> HedgedText],
     [case_id |-> <<"c2">>, student_report_text |-> BriefText],
     [case_id |-> <<"zz">>, student_report_text |-> BriefText]}

\* the finding lists the rule-based extractor returns in the service
ApiFindings ==
    {<<>>,
     <<[type |-> <<"pneumonia">>, negated |-> FALSE],
       [type |-> <<"effusion">>, negated |-> TRUE]>>}

\* a task handed to a thread: not started, running, done with a result, or raised
NoTask == [state |-> "none", error |-> FALSE, findings |-> <<>>]
RunningTask == [state |-> "running", error |-> FALSE, findings |-> <<>>]
TaskResult(error, findings) ==
    [state |-> "done", error |-> error, findings |-> findings]
RaisedTask == [state |-> "raised", error |-> TRUE, findings |-> <<>>]

NoApiAnalysis ==
    [radbert |-> NoTask, chexbert |-> NoTask, fallback |-> NoTask,
     report_text |-> <<>>]

IdleRequest ==
    [pc |-> "idle", case_id |-> <<>>, student_report_text |-> <<>>,
     expert_text_findings |-> {},
     radbert |-> NoTask, chexbert |-> NoTask, fallback |-> NoTask,
     student_analysis |-> NoApiAnalysis,
     image |-> NoTask, gold_standard_findings |-> <<>>,
     status |-> 0, advanced_feedback |-> NoFeedback]

\* variant: the lookup raises its 404 inside the try block, after the tasks
\* are started, and the except clause turns it into a 500
receive_inside_try(library, input) ==
    LET case_id_b == case_id_base(input.case_id)
        known == case_id_b \in DOMAIN library
    IN  [IdleRequest EXCEPT
            !.pc = IF known THEN "gather" ELSE "responded",
            !.case_id = input.case_id,
            !.student_report_text = input.student_report_text,
            !.expert_text_findings =
                IF known THEN ToSet(library[case_id_b].expert_text_findings)
                ELSE {},
            !.radbert = RunningTask,
            !.chexbert = RunningTask,
            !.fallback = RunningTask,
            !.status = IF known THEN 0 ELSE 500]

\* variant: the case looked up is not the request's own
case_data_stale(library, case_id_b) ==
    library[CHOOSE k \in DOMAIN library : TRUE]

\* case_library[case_id_base]
case_data(library, case_id_b) == library[case_id_b]

\* the handler up to its first await: 404, or the three extractor tasks started
receive(library, input) ==
    LET case_id_b == case_id_base(input.case_id)
    IN  IF case_id_b \notin DOMAIN library
        THEN [IdleRequest EXCEPT
                 !.pc = "responded",
                 !.case_id = input.case_id,
                 !.student_report_text = input.student_report_text,
                 !.status = 404]
        ELSE [IdleRequest EXCEPT
                 !.pc = "gather",
                 !.case_id = input.case_id,
                 !.student_report_text = input.student_report_text,
                 !.expert_text_findings =
                     ToSet(case_data(library, case_id_b).expert_text_findings),
                 !.radbert = RunningTask,
                 !.chexbert = RunningTask,
                 !.fallback = RunningTask]

\* variant: the handler goes on as soon as one task is done
gather_first_done(req) ==
    \E t \in {req.radbert, req.chexbert, req.fallback} : t.state = "done"

\* asyncio.gather returns: every task is done
gather_returns(req) ==
    \A t \in {req.radbert, req.chexbert, req.fallback} : t.state = "done"

\* asyncio.gather raises: a task raised
gather_raises(req) ==
    \E t \in {req.radbert, req.chexbert, req.fallback} : t.state = "raised"

ApiInit ==
    /\ hashseed \in HashSeeds
    /\ expert_text_findings = {}
    /\ student_report_text = <<>>
    /\ student_analysis = NoAnalysis
    /\ visual_findings = {}
    /\ gold_standard_findings = <<>>
    /\ feedback_data = NoFeedback
    /\ pc = "start"
    /\ style_feedback = <<>>
    /\ data_files \in DataFiles
    /\ started = FALSE
    /\ nlp = FALSE
    /\ case_library = <<>>
    /\ reqs = [r \in Requests |-> IdleRequest]

\* startup_event: the models are loaded and the case library is built
Startup ==
    /\ ~started
    /\ started' = TRUE
    /\ nlp' \in BOOLEAN
    /\ case_library' =
           IF data_files.present
           THEN build_library(case_library, data_files.rows, hashseed)
           ELSE case_library
    /\ UNCHANGED <<engine_vars, style_vars, data_files, reqs>>

\* a request arrives: the handler runs up to its first await
Receive(r) ==
    /\ started
    /\ reqs[r].pc = "idle"
    /\ \E input \in RequestInputs :
           reqs' = [reqs EXCEPT ![r] = receive(case_library, input)]
    /\ UNCHANGED <<engine_vars, style_vars, data_files, started, nlp, case_library>>

\* the RadBERT thread ends: a result, or the error dict of an unavailable
\* model or of a caught exception
RadbertDone(r) ==
    /\ reqs[r].pc = "gather"
    /\ reqs[r].radbert.state = "running"
    /\ \E error \in BOOLEAN :
           reqs' = [reqs EXCEPT ![r].radbert = TaskResult(error, <<>>)]
    /\ UNCHANGED <<engine_vars, style_vars, data_files, started, nlp, case_library>>

\* the CheXbert thread ends, likewise
ChexbertDone(r) ==
    /\ reqs[r].pc = "gather"
    /\ reqs[r].chexbert.state = "running"
    /\ \E error \in BOOLEAN :
           reqs' = [reqs EXCEPT ![r].chexbert = TaskResult(error, <<>>)]
    /\ UNCHANGED <<engine_vars, style_vars, data_files, started, nlp, case_library>>

\* the rule-based thread ends: no model gives the error dict with no findings;
\* with a model it returns its findings
FallbackDone(r) ==
    /\ reqs[r].pc = "gather"
    /\ reqs[r].fallback.state = "running"
    /\ \/ /\ ~nlp
          /\ reqs' = [reqs EXCEPT ![r].fallback = TaskResult(TRUE, <<>>)]
       \/ /\ nlp
          /\ \E findings \in ApiFindings :
                 reqs' = [reqs EXCEPT ![r].fallback = TaskResult(FALSE, findings)]
    /\ UNCHANGED <<engine_vars, style_vars, data_files, started, nlp, case_library>>

\* the rule-based thread ends with an exception of self.nlp(...), which
\* analyze does not catch
FallbackRaises(r) ==
    /\ reqs[r].pc = "gather"
    /\ reqs[r].fallback.state = "running"
    /\ nlp
    /\ reqs' = [reqs EXCEPT ![r].fallback = RaisedTask]
    /\ UNCHANGED <<engine_vars, style_vars, data_files, started, nlp, case_library>>

\* gather returns the three results: student_analysis is built and the image
\* detector's thread is started
GatherReturns(r) ==
    /\ reqs[r].pc = "gather"
    /\ gather_returns(reqs[r])
    /\ reqs' = [reqs EXCEPT
           ![r].pc = "image",
           ![r].student_analysis =
               [radbert |-> reqs[r].radbert, chexbert |-> reqs[r].chexbert,
                fallback |-> reqs[r].fallback,
                report_text |-> reqs[r].student_report_text],
           ![r].image = RunningTask]
    /\ UNCHANGED <<engine_vars, style_vars, data_files, started, nlp, case_library>>

\* gather raises the task's exception: the except clause answers 500
GatherRaises(r) ==
    /\ reqs[r].pc = "gather"
    /\ gather_raises(reqs[r])
    /\ reqs' = [reqs EXCEPT ![r].pc = "responded", ![r].status = 500]
    /\ UNCHANGED <<engine_vars, style_vars, data_files, started, nlp, case_library>>

\* the image detector's thread ends
ImageDone(r) ==
    /\ reqs[r].pc = "image"
    /\ reqs[r].image.state = "running"
    /\ \E out \in VisionOutputs :
           reqs' = [reqs EXCEPT ![r].image = TaskResult(FALSE, out)]
    /\ UNCHANGED <<engine_vars, style_vars, data_files, started, nlp, case_library>>

\* the gold standard is assembled, the engine runs and the handler answers 200
Respond(r) ==
    /\ reqs[r].pc = "image"
    /\ reqs[r].image.state = "done"
    /\ LET gold == gold_standard(reqs[r].expert_text_findings,
                                 ToSet(reqs[r].image.findings), hashseed)
       IN  reqs' = [reqs EXCEPT
               ![r].pc = "responded",
               ![r].gold_standard_findings = gold,
               ![r].advanced_feedback =
                   generate_feedback(reqs[r].student_analysis, gold, hashseed),
               ![r].status = 200]
    /\ UNCHANGED <<engine_vars, style_vars, data_files, started, nlp, case_library>>

ApiNext ==
    \/ Startup
    \/ \E r \in Requests :
           \/ Receive(r)
           \/ RadbertDone(r)
           \/ ChexbertDone(r)
           \/ FallbackDone(r)
           \/ FallbackRaises(r)
           \/ GatherReturns(r)
           \/ GatherRaises(r)
           \/ ImageDone(r)
           \/ Respond(r)

SpecApi == ApiInit /\ [][ApiNext]_vars

----------------------------------------------------------------------------
(* The claims' vocabulary, stated on the inputs and not through the engine *)

TypeStrings == {<<n>> : n \in patterns \cup {"visual_anomaly"}}
Findings == student_analysis.fallback.findings

\* learner.asserted, learner.negated: the types with an unnegated / a negated mention
LearnerAsserted ==
    {t \in TypeStrings : \E i \in DOMAIN Findings :
        Findings[i].type = t /\ Findings[i].negated = FALSE}
LearnerNegated ==
    {t \in TypeStrings : \E i \in DOMAIN Findings :
        Findings[i].type = t /\ Findings[i].negated = TRUE}

\* gold.asserted, gold.negated: the unmarked labels, and the marked ones unmarked
GoldAsserted == {t \in TypeStrings : t \in ToSet(gold_standard_findings)}
GoldNegated == {t \in TypeStrings : <<"-">> \o t \in ToSet(gold_standard_findings)}

Done == pc = "done"
Score == feedback_data.overall_score
NoStyleAdvisory == feedback_data.clarity_and_style = <<>>

\* the type a feedback entry names
BaseType(entry) ==
    IF Head(entry) \in {"Absence of ", "Missed stating the absence of ",
                        "Incorrectly identified "}
    THEN <<entry[2]>> ELSE entry
BaseTypes(entries) == {BaseType(e) : e \in ToSet(entries)}

\* the sum of the penalties, before the clamp
Penalties ==
    15 * Cardinality(GoldAsserted \ LearnerAsserted)
    + 5 * Cardinality(GoldNegated \ LearnerNegated)
    + 20 * Cardinality(LearnerAsserted \ GoldAsserted)
    + 25 * Cardinality(LearnerAsserted \cap GoldNegated)
    + 5 * Len(feedback_data.clarity_and_style)

----------------------------------------------------------------------------
(* C1: the three buckets generate_feedback returns are, as sets of entries:
   correct = (learner.asserted n gold.asserted) plus an absence entry per type
   of learner.negated n gold.negated; missed = (gold.asserted - learner.asserted)
   plus a missed-absence entry per type of gold.negated - learner.negated;
   misinterpretations = (learner.asserted - gold.asserted) plus a negation-error
   entry per type of learner.asserted n gold.negated. *)
C1_Buckets ==
    Done =>
        /\ ToSet(feedback_data.correct_observations) =
               (LearnerAsserted \cap GoldAsserted)
               \cup {AbsenceOf(t) : t \in LearnerNegated \cap GoldNegated}
        /\ ToSet(feedback_data.missed_findings) =
               (GoldAsserted \ LearnerAsserted)
               \cup {MissedAbsenceOf(t) : t \in GoldNegated \ LearnerNegated}
        /\ ToSet(feedback_data.misinterpretations) =
               (LearnerAsserted \ GoldAsserted)
               \cup {IncorrectlyIdentified(t) : t \in LearnerAsserted \cap GoldNegated}

\* a run with a correct assertion, a correct negation and a missed finding
C1_Witness ==
    /\ Done
    /\ LearnerAsserted \cap GoldAsserted # {}
    /\ LearnerNegated \cap GoldNegated # {}
    /\ GoldAsserted \ LearnerAsserted # {}
    /\ Len(feedback_data.correct_observations) = 2
    /\ Len(feedback_data.missed_findings) = 1

(* C2: overall_score = max(0, min(100, 100 - 15*missed - 5*missed negations
   - 20*unsupported assertions - 25*negation errors - 5*style advisories));
   with no style advisory and no negated findings, a learner asserting a subset
   of gold.asserted that omits k types scores max(0, 100 - 15k). *)
C2_ScoreFormula ==
    Done =>
        /\ Score = Max(0, Min(100, 100 - Penalties))
        /\ (NoStyleAdvisory /\ LearnerNegated = {} /\ GoldNegated = {}
                /\ LearnerAsserted \subseteq GoldAsserted)
             => Score = Max(0, 100 - 15 * Cardinality(GoldAsserted \ LearnerAsserted))

\* the scenario: gold {pneumonia, effusion}, learner {pneumonia}, 20 clean words: 85
C2_Witness ==
    /\ Done
    /\ GoldAsserted = {<<"pneumonia">>, <<"effusion">>} /\ GoldNegated = {}
    /\ LearnerAsserted = {<<"pneumonia">>} /\ LearnerNegated = {}
    /\ word_count(student_analysis.report_text) = 20 /\ NoStyleAdvisory
    /\ feedback_data.missed_findings = << <<"effusion">> >>
    /\ feedback_data.correct_observations = << <<"pneumonia">> >>
    /\ feedback_data.misinterpretations = <<>>
    /\ Score = 85

(* C3: the overall_score generate_feedback returns is an integer in 0..100,
   whatever the learner findings, the gold findings and the report text. *)
C3_ScoreBounded == Done => Score \in 0..100

\* a run whose penalties exceed 100, so that the floor decides the score
C3_Witness == Done /\ Penalties > 100 /\ Score = 0

(* C4: the base finding types behind correct_observations, missed_findings and
   misinterpretations (a synthesized entry reduced to the type it names) are
   pairwise disjoint: no type is counted in two categories. *)
C4_BucketsDisjoint ==
    Done =>
        /\ BaseTypes(feedback_data.correct_observations)
               \cap BaseTypes(feedback_data.missed_findings) = {}
        /\ BaseTypes(feedback_data.correct_observations)
               \cap BaseTypes(feedback_data.misinterpretations) = {}
        /\ BaseTypes(feedback_data.missed_findings)
               \cap BaseTypes(feedback_data.misinterpretations) = {}

\* the analysis with every unnegated mention of type t taken out
WithoutAssertion(analysis, t) ==
    [analysis EXCEPT !.fallback.findings =
        SelectSeq(@, LAMBDA f : ~(f.type = t /\ f.negated = FALSE))]

(* C5: when gold lists X as negated and not asserted and the learner asserts X,
   misinterpretations holds the negation-error entry for X and the score is
   exactly 25 below the score of the same analysis without the assertion of X
   (where the score is not clamped). *)
C5_NegationErrorCosts25 ==
    Done =>
        \A t \in (GoldNegated \ GoldAsserted) \cap LearnerAsserted :
            /\ IncorrectlyIdentified(t) \in ToSet(feedback_data.misinterpretations)
            /\ Score > 0 =>
                 Score = generate_feedback(WithoutAssertion(student_analysis, t),
                                           gold_standard_findings,
                                           hashseed).overall_score - 25

(* C6: if learner.asserted = gold.asserted and learner.negated = gold.negated and
   the text triggers no style advisory, overall_score is 100 and missed_findings
   and misinterpretations are empty. *)
C6_Identity ==
    (Done /\ LearnerAsserted = GoldAsserted /\ LearnerNegated = GoldNegated
          /\ NoStyleAdvisory)
      => /\ Score = 100
         /\ feedback_data.missed_findings = <<>>
         /\ feedback_data.misinterpretations = <<>>

\* a type that is in neither learner set and in neither gold set
Fresh(t) ==
    t \notin LearnerAsserted \cup LearnerNegated \cup GoldAsserted \cup GoldNegated

(* C7: adding to gold.asserted one type the learner neither asserts nor negates
   and that is in no gold set turns the score s into max(0, s - 15). *)
C7_OneMoreMissed ==
    Done =>
        \A t \in TypeStrings :
            Fresh(t) =>
                generate_feedback(student_analysis,
                                  Append(gold_standard_findings, t),
                                  hashseed).overall_score
                    = Max(0, Score - 15)

\* runs with a fresh type: one where 15 is taken off, one where the floor cuts
C7_Witness ==
    /\ Done
    /\ \E t \in TypeStrings : Fresh(t)
    /\ Score \in 1..14

\* the raw candidates have been turned into the learner's two sets
Extracted == pc # "start"

(* C8: the learner's asserted and negated sets built from the raw candidate
   findings are disjoint: a type with a negated mention is in negated only, a
   type is in asserted only if all its mentions are unnegated, and no
   candidates give two empty sets. *)
C8_LearnerSetsDisjoint ==
    Extracted =>
        /\ student_positives(student_analysis)
               \cap student_negatives(student_analysis) = {}
        /\ \A t \in TypeStrings :
               /\ t \in LearnerNegated =>
                      /\ t \in student_negatives(student_analysis)
                      /\ t \notin student_positives(student_analysis)
               /\ t \in student_positives(student_analysis) =>
                      \A i \in DOMAIN Findings :
                          Findings[i].type = t => Findings[i].negated = FALSE
        /\ Findings = <<>> =>
               /\ student_positives(student_analysis) = {}
               /\ student_negatives(student_analysis) = {}

\* the expert-authored labels of the case, by polarity
ExpertAsserted == {t \in TypeStrings : t \in expert_text_findings}
ExpertNegated == {t \in TypeStrings : <<"-">> \o t \in expert_text_findings}

(* C9: the gold standard's asserted set is the union of the expert-authored
   asserted types and the image detector's types, whichever of the two sets is
   supplied first, and its negated set is the expert-authored negated set: no
   finding of the image detector enters the negated set. *)
C9_GoldAssembly ==
    Done =>
        /\ expert_positives(gold_standard_findings)
               = ExpertAsserted \cup visual_findings
        /\ expert_negatives(gold_standard_findings) = ExpertNegated
        /\ expert_positives(gold_standard(visual_findings, expert_text_findings,
                                          hashseed))
               = expert_positives(gold_standard_findings)
        /\ expert_negatives(gold_standard(visual_findings, expert_text_findings,
                                          hashseed))
               = expert_negatives(gold_standard_findings)
        /\ visual_findings \cap expert_negatives(gold_standard_findings) = {}

\* a run where the detector reports a finding and the case has both polarities
C9_Witness ==
    /\ Done
    /\ visual_findings = {visual_anomaly}
    /\ ExpertAsserted # {}
    /\ ExpertNegated # {}
    /\ Len(gold_standard_findings) = 3

\* the gold standard is empty and the learner asserts nothing
EmptyGoldNoAssertion ==
    Done /\ GoldAsserted = {} /\ GoldNegated = {} /\ LearnerAsserted = {}

(* C10 as stated: with no asserted and no negated gold finding, missed_findings
   is empty and overall_score is 100 for every learner input that asserts no
   finding. *)
C10_EmptyGoldPerfectScore ==
    EmptyGoldNoAssertion =>
        /\ feedback_data.missed_findings = <<>>
        /\ Score = 100

(* C10 amended: with no asserted and no negated gold finding, missed_findings is
   empty and, for every learner input that asserts no finding, overall_score is
   100 less 5 for each style advisory (100 when the text triggers none). *)
C10_EmptyGoldScoreLessStyle ==
    EmptyGoldNoAssertion =>
        /\ feedback_data.missed_findings = <<>>
        /\ feedback_data.misinterpretations = <<>>
        /\ Score = 100 - 5 * Len(feedback_data.clarity_and_style)
        /\ NoStyleAdvisory => Score = 100

\* empty gold, a learner who only negates, and a text with style advisories
C10_Witness ==
    /\ EmptyGoldNoAssertion
    /\ LearnerNegated # {}
    /\ Len(feedback_data.clarity_and_style) = 3
    /\ Score = 85

(* C11: when a type is in both the asserted and the negated gold set, the
   feedback record carries a data-quality warning in its diagnostics and the
   comparison treats the type as negated only. *)
C11_GoldConflictReported ==
    Done =>
        \A t \in GoldAsserted \cap GoldNegated :
            /\ "diagnostics" \in DOMAIN feedback_data
            /\ feedback_data.diagnostics # <<>>
            /\ t \notin ToSet(feedback_data.correct_observations)
            /\ t \notin ToSet(feedback_data.missed_findings)

(* C15: two runs of the engine on identical inputs return identical records,
   the order of the entries of each list included: the record does not depend
   on the hash seed of the process that computes it. *)
C15_OrderReproducible ==
    Done =>
        \A seed \in HashSeeds :
            generate_feedback(student_analysis, gold_standard_findings, seed)
                = feedback_data

(* C19: whenever the image detector reports a finding, every learner report
   for the case has visual_anomaly in missed_findings and scores at most 85:
   no type the rule-based extractor reports equals visual_anomaly. *)
C19_VisualAlwaysMissed ==
    (Done /\ visual_findings # {}) =>
        /\ visual_anomaly \in ToSet(feedback_data.missed_findings)
        /\ visual_anomaly \notin ToSet(feedback_data.correct_observations)
        /\ Score <= 85

\* the detector reports, and the learner's report is otherwise perfect: 85
C19_Witness ==
    /\ Done
    /\ visual_findings = {visual_anomaly}
    /\ LearnerAsserted = ExpertAsserted /\ ExpertAsserted # {}
    /\ feedback_data.missed_findings = <<visual_anomaly>>
    /\ Score = 85

----------------------------------------------------------------------------
(* Claims on the style critic, under SpecStyle *)

Styled == pc \in {"styled", "done"}

\* phrase number k occurs in the text, letter case aside
Occurs(k) ==
    LET ph == unprofessional_phrases[k]
    IN  \E i \in 1..Len(student_report_text) :
            /\ i + Len(ph) - 1 <= Len(student_report_text)
            /\ \A j \in 1..Len(ph) :
                   LowerToken(student_report_text[i + j - 1]) = ph[j]

PhraseNumbers == 1..Len(unprofessional_phrases)
LengthAdvisories == {BriefAdvisory, LongAdvisory}

\* positions of style_feedback that hold the advisory of phrase k
AdvisoryPositions(k) ==
    {i \in DOMAIN style_feedback :
        style_feedback[i] = PhraseAdvisory(unprofessional_phrases[k])}

(* C16: _check_report_style returns exactly one advisory for each configured
   phrase that occurs in the text as a case-insensitive substring, in the phrase
   list's order, followed by the length advisory if any; no advisory appears
   twice and none for a phrase that does not occur. *)
C16_PhraseAdvisories ==
    Styled =>
        /\ \A k \in PhraseNumbers :
               Cardinality(AdvisoryPositions(k)) = (IF Occurs(k) THEN 1 ELSE 0)
        /\ \A k1, k2 \in PhraseNumbers :
               \A i1 \in AdvisoryPositions(k1), i2 \in AdvisoryPositions(k2) :
                   k1 < k2 => i1 < i2
        /\ \A i \in DOMAIN style_feedback :
               \/ \E k \in PhraseNumbers : i \in AdvisoryPositions(k)
               \/ style_feedback[i] \in LengthAdvisories /\ i = Len(style_feedback)
        /\ \A i, j \in DOMAIN style_feedback :
               style_feedback[i] = style_feedback[j] => i = j

\* a text with "Stuff" before "I think": two phrase advisories in list order, then brevity
C16_Witness ==
    /\ Styled
    /\ student_report_text = <<"Stuff", "I", " ", "think">>
    /\ style_feedback = <<PhraseAdvisory(<<"i", " ", "think">>),
                          PhraseAdvisory(<<"stuff">>), BriefAdvisory>>

\* the number of whitespace-separated words of the text: the places a word ends
Words ==
    Cardinality({i \in DOMAIN student_report_text :
        /\ student_report_text[i] # " "
        /\ (i = Len(student_report_text) \/ student_report_text[i + 1] = " ")})

(* C17: the brevity advisory is emitted exactly when the word count is below 15
   and the verbosity advisory exactly when it is above 100; never both, and
   neither for 15 to 100 words; a 10-word report carries the brevity advisory
   and loses 5 points for it. *)
C17_LengthAdvisories ==
    /\ Styled =>
           /\ BriefAdvisory \in ToSet(style_feedback) <=> Words < 15
           /\ LongAdvisory \in ToSet(style_feedback) <=> Words > 100
           /\ ~(BriefAdvisory \in ToSet(style_feedback)
                  /\ LongAdvisory \in ToSet(style_feedback))
           /\ Words \in 15..100 =>
                  ToSet(style_feedback) \cap LengthAdvisories = {}
    /\ (pc = "done" /\ Words = 10) =>
           /\ BriefAdvisory \in ToSet(feedback_data.clarity_and_style)
           /\ feedback_data.clarity_and_style = style_feedback
           /\ feedback_data.overall_score
                  = 100 - 5 * (Len(style_feedback) - 1) - 5

\* a clean report of exactly 10 words: the brevity advisory and 95 points
C17_Witness ==
    /\ pc = "done"
    /\ Words = 10
    /\ style_feedback = <<BriefAdvisory>>
    /\ feedback_data.overall_score = 95

----------------------------------------------------------------------------
(* The service's claims *)

\* the library key of a request's case id: the part before the extension
OwnKey(req) == <<req.case_id[1]>>
\* the handler of the request has ended
Responded(req) == req.pc = "responded"
\* an extractor of the request failed: an error result or an exception
ExtractorFailed(req) ==
    \/ req.radbert.error
    \/ req.chexbert.error
    \/ req.fallback.error
\* the rows of the dataset labelled "No Finding"
NoFindingRows ==
    {i \in DOMAIN data_files.rows :
        data_files.rows[i].finding_labels = <<"No", " ", "Finding">>}

\* C12: when an extractor of a request fails, the request still succeeds, and
\* the engine was given an empty learner finding list for a failed rule-based
\* extractor
C12_ExtractorFailureAbsorbed ==
    \A r \in Requests :
        (Responded(reqs[r]) /\ ExtractorFailed(reqs[r])) =>
            /\ reqs[r].status = 200
            /\ reqs[r].fallback.error =>
                   reqs[r].student_analysis.fallback.findings = <<>>

\* C13: a request has a feedback record only when its three extractor tasks
\* and its image analysis are all done, and the engine was given the complete
\* results
C13_EngineAfterAllTasks ==
    \A r \in Requests :
        (reqs[r].status = 200 \/ reqs[r].advanced_feedback # NoFeedback) =>
            /\ reqs[r].radbert.state = "done"
            /\ reqs[r].chexbert.state = "done"
            /\ reqs[r].fallback.state = "done"
            /\ reqs[r].image.state = "done"
            /\ reqs[r].student_analysis.radbert = reqs[r].radbert
            /\ reqs[r].student_analysis.chexbert = reqs[r].chexbert
            /\ reqs[r].student_analysis.fallback = reqs[r].fallback

C13_Witness ==
    \E r, q \in Requests :
        /\ reqs[r].status = 200
        /\ reqs[r].fallback.findings # <<>>
        /\ reqs[q].pc = "gather"
        /\ reqs[q].fallback.state = "done"
        /\ reqs[q].radbert.state = "running"

\* C14: the record of every answered request is the record of its own report,
\* its own case and its own image findings, whatever the other request does
C14_RequestsIsolated ==
    \A r \in Requests :
        reqs[r].status = 200 =>
            LET req == reqs[r]
                gold == gold_standard(
                            ToSet(case_library[OwnKey(req)].expert_text_findings),
                            ToSet(req.image.findings), hashseed)
            IN  /\ req.gold_standard_findings = gold
                /\ req.advanced_feedback =
                       generate_feedback(
                           [fallback |-> req.fallback,
                            report_text |-> req.student_report_text],
                           gold, hashseed)

C14_Witness ==
    \E r, q \in Requests :
        /\ reqs[r].status = 200
        /\ reqs[q].status = 200
        /\ OwnKey(reqs[r]) # OwnKey(reqs[q])
        /\ reqs[r].advanced_feedback # reqs[q].advanced_feedback

\* C18: after startup every case whose dataset row is labelled "No Finding"
\* is stored with an empty list of expert findings
C18_NoFindingStoredEmpty ==
    started =>
        \A i \in NoFindingRows :
            LET key == <<data_files.rows[i].image_index[1]>>
            IN  /\ key \in DOMAIN case_library
                /\ case_library[key].expert_text_findings = <<>>

\* C20: a request for a case that is not in the library is answered 404 with
\* no extractor or detector started and no feedback, and no request changes
\* the library
C20_UnknownCase404 ==
    /\ [](\A r \in Requests :
              (reqs[r].pc # "idle" /\ OwnKey(reqs[r]) \notin DOMAIN case_library) =>
                  /\ reqs[r].status = 404
                  /\ reqs[r].radbert.state = "none"
                  /\ reqs[r].chexbert.state = "none"
                  /\ reqs[r].fallback.state = "none"
                  /\ reqs[r].image.state = "none"
                  /\ reqs[r].advanced_feedback = NoFeedback)
    /\ [][started => case_library' = case_library]_vars

C20_Witness ==
    \E r \in Requests :
        /\ started
        /\ ~data_files.present
        /\ case_library = <<>>
        /\ reqs[r].status = 404
        /\ reqs[r].fallback.state = "none"

====
